---------------------------- MODULE Spec2Model ----------------------------
(***************************************************************************)
(* Model of apps/src/proxy.rs: the RFC 9209 proxy error taxonomy with its  *)
(* status-code mapping, and the Http3DgramProxy datagram relay handle (one *)
(* UDP socket bound to 0.0.0.0:0 and connected to one destination).        *)
(*                                                                         *)
(* The operating system and the resolver are the environment: every        *)
(* outcome they can report (bind, connect, send, recv, name resolution) is *)
(* a nondeterministic choice of the action that makes the call.            *)
(***************************************************************************)
EXTENDS Integers, Sequences, FiniteSets

VARIABLES
    open,       \* descriptors of the UDP sockets this code has open
    handles,    \* the live Http3DgramProxy values: [socket, target, context_id]
    last,       \* the last call: [op, args, env, calls, result]
    err,        \* the Error value handed to to_status_code
    status      \* Option<u16>: <<>> before to_status_code ran, <<code>> after

vars == <<open, handles, last, err, status>>

---------------------------------------------------------------------------
(* Bounds of the model *)

\* live handles (and so open descriptors) at any one time
MaxHandles == 2
\* length of the generated port strings
MaxPortLen == 5
\* length of the buffers handed to send and recv
MaxBufLen == 1

\* u16::MAX, the width of the port and of the carried status code
U16Max == 65535

---------------------------------------------------------------------------
(* Error taxonomy *)

\* the variants of enum Error that carry no payload
PlainTags ==
    { "DnsTimeout", "DnsError", "DestinationNotFound", "DestinationUnavailable",
      "DestinationIpProhibited", "DestinationIpUnroutable", "ConnectionRefused",
      "ConnectionTerminated", "ConnectionReadTimeout", "ConnectionWriteTimeout",
      "ConnectionLimitReached", "TlsProtocolError", "TlsCertificateError",
      "TlsAlertReceived", "HttpRequestDenied", "HttpResponseIncomplete",
      "HttpResponseHeaderSectionSize", "HttpResponseHeaderSize",
      "HttpResponseBodySize", "HttpResponseTrailerSectionSize",
      "HttpResponseTrailerSize", "HttpResponseTransferCoding",
      "HttpResponseContentCoding", "HttpResponseTimeout", "HttpUpgradeFailed",
      "HttpProtocolError", "ProxyInternalError", "ProxyConfigurationError",
      "ProxyLoopDetected" }

\* the two variants that carry a u16
PayloadTags == { "HttpRequestError", "ProxyInternalResponse" }

\* enum Error: a plain variant is [tag], a payload variant [tag, status_code]
Error ==
    [tag : PlainTags] \cup [tag : PayloadTags, status_code : 0..U16Max]

\* a to_status_code that validates the carried status, as an HTTP layer might
to_status_code_clamped(self) ==
    CASE self.tag \in {"DnsTimeout", "ConnectionReadTimeout",
                       "ConnectionWriteTimeout", "HttpResponseTimeout"} -> 504
      [] self.tag \in {"DestinationUnavailable", "ConnectionLimitReached"} -> 503
      [] self.tag \in {"DestinationNotFound", "ProxyInternalError",
                       "ProxyConfigurationError"} -> 500
      [] self.tag = "HttpRequestDenied" -> 403
      [] self.tag \in PayloadTags ->
            IF self.status_code > 599 THEN 500 ELSE self.status_code
      [] OTHER -> 502

\* Error::to_status_code, arm by arm
to_status_code(self) ==
    CASE self.tag = "DnsTimeout" -> 504
      [] self.tag = "DnsError" -> 502
      [] self.tag = "DestinationNotFound" -> 500
      [] self.tag = "DestinationUnavailable" -> 503
      [] self.tag = "DestinationIpProhibited" -> 502
      [] self.tag = "DestinationIpUnroutable" -> 502
      [] self.tag = "ConnectionRefused" -> 502
      [] self.tag = "ConnectionTerminated" -> 502
      [] self.tag = "ConnectionReadTimeout" -> 504
      [] self.tag = "ConnectionWriteTimeout" -> 504
      [] self.tag = "ConnectionLimitReached" -> 503
      [] self.tag = "TlsProtocolError" -> 502
      [] self.tag = "TlsCertificateError" -> 502
      [] self.tag = "TlsAlertReceived" -> 502
      [] self.tag = "HttpRequestError" -> self.status_code
      [] self.tag = "HttpRequestDenied" -> 403
      [] self.tag = "HttpResponseIncomplete" -> 502
      [] self.tag = "HttpResponseHeaderSectionSize" -> 502
      [] self.tag = "HttpResponseHeaderSize" -> 502
      [] self.tag = "HttpResponseBodySize" -> 502
      [] self.tag = "HttpResponseTrailerSectionSize" -> 502
      [] self.tag = "HttpResponseTrailerSize" -> 502
      [] self.tag = "HttpResponseTransferCoding" -> 502
      [] self.tag = "HttpResponseContentCoding" -> 502
      [] self.tag = "HttpResponseTimeout" -> 504
      [] self.tag = "HttpUpgradeFailed" -> 502
      [] self.tag = "HttpProtocolError" -> 502
      [] self.tag = "ProxyInternalResponse" -> self.status_code
      [] self.tag = "ProxyInternalError" -> 500
      [] self.tag = "ProxyConfigurationError" -> 500
      [] self.tag = "ProxyLoopDetected" -> 502


\* impl From<std::io::Error> for Error, were it to match on err.kind()
from_io_error_by_kind(e) ==
    CASE e = "ConnectionRefused" -> [tag |-> "ConnectionRefused"]
      [] e = "AddrInUse" -> [tag |-> "ConnectionLimitReached"]
      [] OTHER -> [tag |-> "ProxyInternalError"]

\* impl From<std::io::Error> for Error (the error! record is in the caller's calls)
from_io_error(e) == [tag |-> "ProxyInternalError"]

\* impl From<std::net::AddrParseError> for Error
from_addr_parse_error(e) == [tag |-> "ProxyInternalError"]

---------------------------------------------------------------------------
(* Values *)

\* std::io::Result<T>
IoOk(v) == [ok |-> TRUE, val |-> v]
IoErr(k) == [ok |-> FALSE, kind |-> k]

\* proxy::Result<Http3DgramProxy>
Ok(h) == [ok |-> TRUE, handle |-> h]
Err(e) == [ok |-> FALSE, err |-> e]

\* Option<T> as a sequence of length at most one
None == <<>>
Some(v) == <<v>>

\* net::SocketAddr
SocketAddr(ip, port) == [ip |-> ip, port |-> port]

---------------------------------------------------------------------------
(* The port string: port.parse::<u16>() and format!("{host}:{port}") *)

DigitChars == <<"0", "1", "2", "3", "4", "5", "6", "7", "8", "9">>

\* char::to_digit(10)
to_digit(c) ==
    IF \E i \in 1..10 : DigitChars[i] = c
    THEN Some((CHOOSE i \in 1..10 : DigitChars[i] = c) - 1)
    ELSE None

RECURSIVE parse_digits(_, _)
\* the digit loop of u16::from_str_radix(_, 10): checked_mul, then checked_add
parse_digits(digits, result) ==
    IF digits = <<>> THEN IoOk(result)
    ELSE LET x == to_digit(Head(digits)) IN
         IF x = None THEN IoErr("InvalidDigit")
         ELSE IF result * 10 > U16Max THEN IoErr("PosOverflow")
         ELSE IF result * 10 + x[1] > U16Max THEN IoErr("PosOverflow")
         ELSE parse_digits(Tail(digits), result * 10 + x[1])

RECURSIVE wrap_digits(_, _)
\* the digit loop with wrapping arithmetic in place of the checked one
wrap_digits(digits, result) ==
    IF digits = <<>> THEN IoOk(result)
    ELSE LET x == to_digit(Head(digits)) IN
         IF x = None THEN IoErr("InvalidDigit")
         ELSE wrap_digits(Tail(digits), (result * 10 + x[1]) % (U16Max + 1))

\* a parse that wraps on overflow, as an unchecked accumulation would
parse_u16_wrapping(src) ==
    IF src = <<>> THEN IoErr("Empty")
    ELSE IF Len(src) = 1 /\ src[1] \in {"+", "-"} THEN IoErr("InvalidDigit")
    ELSE wrap_digits(IF src[1] = "+" THEN Tail(src) ELSE src, 0)

\* a parse into NonZeroU16, which refuses the port 0
parse_u16_nonzero(src) ==
    IF src = <<>> THEN IoErr("Empty")
    ELSE IF Len(src) = 1 /\ src[1] \in {"+", "-"} THEN IoErr("InvalidDigit")
    ELSE LET r == parse_digits(IF src[1] = "+" THEN Tail(src) ELSE src, 0) IN
         IF r.ok /\ r.val = 0 THEN IoErr("Zero") ELSE r

\* port.parse::<u16>(): empty fails, a lone sign fails, a leading "+" is
\* skipped, a "-" is no digit of an unsigned type
parse_u16(src) ==
    IF src = <<>> THEN IoErr("Empty")
    ELSE IF Len(src) = 1 /\ src[1] \in {"+", "-"} THEN IoErr("InvalidDigit")
    ELSE parse_digits(IF src[1] = "+" THEN Tail(src) ELSE src, 0)

RECURSIVE to_decimal(_)
\* Display of a u16: its decimal digits, no sign, no leading zero
to_decimal(n) ==
    IF n < 10 THEN <<DigitChars[n + 1]>>
    ELSE to_decimal(n \div 10) \o <<DigitChars[(n % 10) + 1]>>

\* format!("{host}:{port}"): the host, a colon, the decimal port
format_host_port(host, port) == <<host, ":">> \o to_decimal(port)

---------------------------------------------------------------------------
(* The environment: the inputs callers give and the outcomes the system reports *)

\* host names: one that resolves, one that does not
Hosts == {"localhost", "name.that.cannot.resolve.invalid"}

\* the addresses the resolver knows for a host
HostIps(host) == IF host = "localhost" THEN {"127.0.0.1", "::1"} ELSE {}

Ips == {"127.0.0.1", "::1"}
Ports == {0, 9999, U16Max}
Targets == {SocketAddr(ip, port) : ip \in Ips, port \in Ports}

\* port strings a caller may pass: "0", "9999", "65535", and malformed ones
PortStrings ==
    { <<"0">>, <<"9", "9", "9", "9">>, <<"6", "5", "5", "3", "5">>,
      <<"6", "5", "5", "3", "6">>, <<"a", "b", "c">>, <<>>, <<"-", "1">>,
      <<"9", "9", " ">> }

\* the characters of the generated port strings: digits that spell both sides
\* of 65535, and the two signs
PortChars == {"0", "3", "5", "6", "a", "-", "+"}

\* every string over PortChars of length at most MaxPortLen
GeneratedPortStrings == UNION {[1..k -> PortChars] : k \in 0..MaxPortLen}

\* io::ErrorKind values the calls can fail with
BindErrors == {"AddrInUse", "Other"}
ConnectErrors == {"WouldBlock", "ConnectionRefused", "InvalidInput"}
TransferErrors == {"WouldBlock", "ConnectionRefused"}

\* sequences without repetition over a set of at most two addresses
Orderings(S) ==
    {<<a>> : a \in S} \cup {<<a, b>> : <<a, b>> \in {t \in S \X S : t[1] # t[2]}}

\* the port the resolver reads back out of "host:port" (the text after the colon)
resolver_port(hostport) == parse_u16(SubSeq(hostport, 3, Len(hostport)))

\* what to_socket_addrs() can return for "host:port": an I/O error, an empty
\* list, or the host's addresses in some order, each with the port of the string
to_socket_addrs(hostport) ==
    LET host == hostport[1]
        port == resolver_port(hostport)
    IN  IF ~port.ok THEN {IoErr("InvalidInput")}
        ELSE {IoErr("Other"), IoOk(<<>>)} \cup
             {IoOk([i \in 1..Len(o) |-> SocketAddr(o[i], port.val)]) :
                 o \in Orderings(HostIps(host))}

\* the descriptor the next socket gets: the lowest one free
NextFd == CHOOSE fd \in (1..MaxHandles) \ open :
              \A other \in (1..MaxHandles) \ open : fd <= other

\* what UdpSocket::bind can return
BindOutcomes ==
    {IoErr(k) : k \in BindErrors} \cup
    (IF (1..MaxHandles) \ open = {} THEN {} ELSE {IoOk(NextFd)})

\* what UdpSocket::connect can return; it is not called on a socket that
\* was never bound
ConnectOutcomes(b) ==
    IF b.ok THEN {IoOk(<<>>)} \cup {IoErr(k) : k \in ConnectErrors}
    ELSE {IoOk(<<>>)}

---------------------------------------------------------------------------
(* Http3DgramProxy *)

\* the calls a constructor or a transfer makes, in order, as its trace
Call(name) == <<name>>
SockCall(name, socket) == <<name, socket>>

\* a socket whose descriptor outlives its owner (mem::forget, into_raw_fd)
drop_socket_leaked(opened, socket) == opened

\* dropping the owned mio::net::UdpSocket closes its descriptor
drop_socket(opened, socket) == opened \ {socket}

\* Ok(Self { socket, target, context_id }) with context_id fixed to 0
new_handle(socket, target) ==
    [socket |-> socket, target |-> target, context_id |-> 0]

\* a connect failure lifted like the bind failure, with the ? operator
connect_failed_lifted(e) ==
    [calls |-> <<Call("error!")>>, result |-> Err(from_io_error(e))]

\* the body of `if let Err(e) = connect(..)`: a trace! record for WouldBlock,
\* then for every kind the error! record and Err(ConnectionRefused)
connect_failed(e) ==
    [calls |-> (IF e = "WouldBlock" THEN <<Call("trace!")>> ELSE <<>>)
                  \o <<Call("error!")>>,
     result |-> Err([tag |-> "ConnectionRefused"])]

\* with_sock_addr(target) run against the outcomes b of bind and c of connect:
\* its result, its calls, the outcomes it consumed and the descriptors left open.
\* The bind address is the literal "0.0.0.0:0", whose parse() always succeeds,
\* so the first ? never returns; the second ? lifts a bind failure.
with_sock_addr(target, b, c) ==
    IF ~b.ok
    THEN [result |-> Err(from_io_error(b.kind)),
          calls  |-> <<Call("bind"), Call("error!")>>,
          env    |-> [bind |-> Some(b), connect |-> None],
          open   |-> open]
    ELSE LET socket == b.val IN
         IF ~c.ok
         THEN LET f == connect_failed(c.kind) IN
              [result |-> f.result,
               calls  |-> <<Call("bind"), SockCall("connect", socket)>>
                             \o f.calls \o <<SockCall("close", socket)>>,
               env    |-> [bind |-> Some(b), connect |-> Some(c)],
               open   |-> drop_socket(open \cup {socket}, socket)]
         ELSE [result |-> Ok(new_handle(socket, target)),
               calls  |-> <<Call("bind"), SockCall("connect", socket)>>,
               env    |-> [bind |-> Some(b), connect |-> Some(c)],
               open   |-> open \cup {socket}]

\* the state after a constructor returned: the caller keeps the handle of an Ok
Returned(op, args, resolve, pre, run) ==
    /\ last' = [op |-> op, args |-> args,
                env |-> [resolve |-> resolve, bind |-> run.env.bind,
                         connect |-> run.env.connect],
                calls |-> pre \o run.calls, result |-> run.result]
    /\ open' = run.open
    /\ handles' = IF run.result.ok THEN handles \cup {run.result.handle}
                  ELSE handles

\* a constructor that returned before with_sock_addr was entered
Failed(op, args, resolve, calls, e) ==
    /\ last' = [op |-> op, args |-> args,
                env |-> [resolve |-> resolve, bind |-> None, connect |-> None],
                calls |-> calls, result |-> Err(e)]
    /\ UNCHANGED <<open, handles>>

\* iterator.next() taking the last address instead of the first
first_addr_last(addrs) ==
    IF addrs = <<>> THEN None ELSE Some(addrs[Len(addrs)])

\* .next() on the resolver's iterator
first_addr(addrs) == IF addrs = <<>> THEN None ELSE Some(Head(addrs))

\* Http3DgramProxy::with_host_port(host, port)
WithHostPort(host, port) ==
    /\ Cardinality(handles) < MaxHandles
    /\ LET args == [host |-> host, port |-> port]
           parsed == parse_u16(port)
       IN  IF ~parsed.ok
           THEN Failed("with_host_port", args, None, <<>>,
                       [tag |-> "DestinationNotFound"])
           ELSE \E r \in to_socket_addrs(format_host_port(host, parsed.val)) :
                  IF ~r.ok
                  THEN Failed("with_host_port", args, Some(r),
                              <<Call("resolve"), Call("error!")>>,
                              from_io_error(r.kind))
                  ELSE IF first_addr(r.val) = None
                  THEN Failed("with_host_port", args, Some(r),
                              <<Call("resolve")>>, [tag |-> "DnsError"])
                  ELSE \E b \in BindOutcomes : \E c \in ConnectOutcomes(b) :
                         Returned("with_host_port", args, Some(r),
                                  <<Call("resolve")>>,
                                  with_sock_addr(first_addr(r.val)[1], b, c))
    /\ UNCHANGED <<err, status>>

\* Http3DgramProxy::with_addr_port(addr, port)
WithAddrPort(addr, port) ==
    /\ Cardinality(handles) < MaxHandles
    /\ \E b \in BindOutcomes : \E c \in ConnectOutcomes(b) :
         Returned("with_addr_port", [addr |-> addr, port |-> port], None, <<>>,
                  with_sock_addr(SocketAddr(addr, port), b, c))
    /\ UNCHANGED <<err, status>>

\* Http3DgramProxy::with_sock_addr(target)
WithSockAddr(target) ==
    /\ Cardinality(handles) < MaxHandles
    /\ \E b \in BindOutcomes : \E c \in ConnectOutcomes(b) :
         Returned("with_sock_addr", [target |-> target], None, <<>>,
                  with_sock_addr(target, b, c))
    /\ UNCHANGED <<err, status>>

\* a send that lifts a failure into the taxonomy
transfer_classified(name, self, outcome) ==
    [calls |-> <<SockCall(name, self.socket)>>,
     result |-> IF outcome.ok THEN outcome ELSE Err(from_io_error(outcome.kind))]

\* self.socket.send(buf) and self.socket.recv(buf): one call on the handle's
\* socket, its io::Result returned as it is
transfer(name, self, outcome) ==
    [calls |-> <<SockCall(name, self.socket)>>, result |-> outcome]

\* the state after send or recv returned; &self: the handle is not changed
Transferred(name, self, len, outcome) ==
    LET t == transfer(name, self, outcome) IN
    /\ last' = [op |-> name, args |-> [self |-> self, len |-> len],
                env |-> [transfer |-> outcome],
                calls |-> t.calls, result |-> t.result]
    /\ UNCHANGED <<open, handles, err, status>>

\* Http3DgramProxy::send(&self, buf): a datagram goes out whole or not at all
Send(self, len) ==
    /\ self \in handles
    /\ \E outcome \in {IoOk(len)} \cup {IoErr(k) : k \in TransferErrors} :
         Transferred("send", self, len, outcome)

\* Http3DgramProxy::recv(&self, buf): at most len bytes of the next datagram
Recv(self, len) ==
    /\ self \in handles
    /\ \E outcome \in {IoOk(n) : n \in 0..len} \cup
                      {IoErr(k) : k \in TransferErrors} :
         Transferred("recv", self, len, outcome)

\* the caller drops a handle: its socket field is dropped with it
Drop(self) ==
    /\ self \in handles
    /\ handles' = handles \ {self}
    /\ open' = drop_socket(open, self.socket)
    /\ last' = [op |-> "drop", args |-> [self |-> self],
                env |-> [resolve |-> None, bind |-> None, connect |-> None],
                calls |-> <<SockCall("close", self.socket)>>,
                result |-> IoOk(<<>>)]
    /\ UNCHANGED <<err, status>>

\* the caller asks for the status code of an error
Classify ==
    /\ status = None
    /\ status' = Some(to_status_code(err))
    /\ UNCHANGED <<open, handles, last, err>>

---------------------------------------------------------------------------
(* Specifications *)

\* no handle has been constructed yet
InitRelay ==
    /\ open = {}
    /\ handles = {}
    /\ last = [op |-> "none", args |-> <<>>,
               env |-> [resolve |-> None, bind |-> None, connect |-> None],
               calls |-> <<>>, result |-> IoOk(<<>>)]

Init ==
    /\ InitRelay
    /\ err = [tag |-> "DnsTimeout"]
    /\ status = None

Next ==
    \/ \E host \in Hosts, port \in PortStrings : WithHostPort(host, port)
    \/ \E addr \in Ips, port \in Ports : WithAddrPort(addr, port)
    \/ \E target \in Targets : WithSockAddr(target)
    \/ \E self \in handles, len \in 0..MaxBufLen : Send(self, len)
    \/ \E self \in handles, len \in 0..MaxBufLen : Recv(self, len)
    \/ \E self \in handles : Drop(self)

\* the relay handles of one process
Spec == Init /\ [][Next]_vars

\* to_status_code applied to every value of Error
InitStatus ==
    /\ InitRelay
    /\ err \in Error
    /\ status = None

NextStatus == Classify

SpecStatus == InitStatus /\ [][NextStatus]_vars

\* the first constructor call of a process
FirstCall == last.op = "none"

NextPort ==
    /\ FirstCall
    /\ \E host \in Hosts, port \in GeneratedPortStrings : WithHostPort(host, port)

\* with_host_port as the first call, on every generated port string
SpecPort == Init /\ [][NextPort]_vars

---------------------------------------------------------------------------
(* Vocabulary of the properties *)

Constructors == {"with_host_port", "with_addr_port", "with_sock_addr"}
Transfers == {"send", "recv"}

\* the sockets owned by the live handles
OwnedSockets == {h.socket : h \in handles}

\* the destination the last constructor call was asked to reach
RequestedTarget ==
    CASE last.op = "with_sock_addr" -> last.args.target
      [] last.op = "with_addr_port" -> SocketAddr(last.args.addr, last.args.port)
      [] last.op = "with_host_port" -> Head(last.env.resolve[1].val)

\* the last call was a constructor whose bind succeeded and whose connect
\* reported the error kind k
ConnectReported(k) ==
    /\ last.op \in Constructors
    /\ last.env.bind # None /\ last.env.bind[1].ok
    /\ last.env.connect = Some(IoErr(k))

\* the last call was with_host_port and got past the port check
Resolved == last.op = "with_host_port" /\ last.env.resolve # None

\* the resolver gave no usable address: an I/O error or an empty list
NoAddress ==
    /\ Resolved
    /\ \/ ~last.env.resolve[1].ok
       \/ last.env.resolve[1].val = <<>>

RECURSIVE PlaceValue(_)
\* the number a string of decimal digits denotes, by place value
PlaceValue(ds) ==
    IF ds = <<>> THEN 0
    ELSE (CHOOSE d \in 0..9 : DigitChars[d + 1] = Head(ds))
             * 10 ^ (Len(ds) - 1) + PlaceValue(Tail(ds))

\* the text of an unsigned 16-bit integer: an optional "+", then one or more
\* decimal digits denoting at most 65535
IsU16Text(s) ==
    /\ s # <<>>
    /\ LET ds == IF s[1] = "+" THEN Tail(s) ELSE s IN
       /\ ds # <<>>
       /\ \A i \in 1..Len(ds) : \E d \in 1..10 : DigitChars[d] = ds[i]
       /\ PlaceValue(ds) <= U16Max

---------------------------------------------------------------------------
(* Properties *)

\* C1: in every state where to_status_code has returned, the code is the one
\* the table of section 4.1 gives for the variant: 504 for the four timeouts,
\* 503 for DestinationUnavailable and ConnectionLimitReached, 500 for
\* DestinationNotFound, ProxyInternalError and ProxyConfigurationError, 403 for
\* HttpRequestDenied, the carried status unchanged for HttpRequestError and
\* ProxyInternalResponse, and 502 for every other variant.
C1_StatusTable ==
    status # None =>
        status[1] =
            IF err.tag \in {"DnsTimeout", "ConnectionReadTimeout",
                            "ConnectionWriteTimeout", "HttpResponseTimeout"}
            THEN 504
            ELSE IF err.tag \in {"DestinationUnavailable", "ConnectionLimitReached"}
            THEN 503
            ELSE IF err.tag \in {"DestinationNotFound", "ProxyInternalError",
                                 "ProxyConfigurationError"}
            THEN 500
            ELSE IF err.tag = "HttpRequestDenied" THEN 403
            ELSE IF err.tag \in PayloadTags THEN err.status_code
            ELSE 502

\* C1 witness: an out-of-range status carried by a payload variant was mapped
C1_Witness ==
    /\ err = [tag |-> "ProxyInternalResponse", status_code |-> U16Max]
    /\ status = Some(U16Max)

\* C2: whenever with_host_port got a valid port and the resolver gave no usable
\* address (an I/O error or an empty list), the call failed with DnsError.
C2_NoAddressIsDnsError ==
    NoAddress => last.result = Err([tag |-> "DnsError"])

\* C3: whenever bind succeeded and connect reported WouldBlock, the constructor
\* returned Ok with a handle of context_id 0 for the requested address.
C3_WouldBlockIsSuccess ==
    ConnectReported("WouldBlock") =>
        /\ last.result.ok
        /\ last.result.handle.context_id = 0
        /\ last.result.handle.target = RequestedTarget

\* C4: whenever with_host_port was given a port string that is not the text of
\* an unsigned 16-bit integer, it failed with DestinationNotFound having made
\* no call at all: the resolver was not consulted and no socket was bound.
C4_BadPortIsDestinationNotFound ==
    (last.op = "with_host_port" /\ ~IsU16Text(last.args.port)) =>
        /\ last.result = Err([tag |-> "DestinationNotFound"])
        /\ last.calls = <<>>
        /\ last.env = [resolve |-> None, bind |-> None, connect |-> None]

\* C4 witness: "65536" with a host that does not resolve was refused
C4_Witness ==
    /\ last.op = "with_host_port"
    /\ last.args = [host |-> "name.that.cannot.resolve.invalid",
                    port |-> <<"6", "5", "5", "3", "6">>]
    /\ last.result = Err([tag |-> "DestinationNotFound"])

\* C5 as stated: with_host_port("localhost", "0") fails with DestinationNotFound.
C5_PortZeroIsDestinationNotFound ==
    (last.op = "with_host_port"
        /\ last.args = [host |-> "localhost", port |-> <<"0">>]) =>
        last.result = Err([tag |-> "DestinationNotFound"])

\* C5 amended: with_host_port("localhost", "0") never fails with
\* DestinationNotFound: "0" parses as port 0, the resolver is consulted, and the
\* call ends in Ok with a target of port 0 or in DnsError, ProxyInternalError or
\* ConnectionRefused.
C5_PortZeroIsResolved ==
    (last.op = "with_host_port"
        /\ last.args = [host |-> "localhost", port |-> <<"0">>]) =>
        /\ Resolved
        /\ last.calls[1] = Call("resolve")
        /\ IF last.result.ok THEN last.result.handle.target.port = 0
           ELSE last.result.err.tag \in
                    {"DnsError", "ProxyInternalError", "ConnectionRefused"}

\* C5 witness: with_host_port("localhost", "0") returned a handle
C5_Witness ==
    /\ last.op = "with_host_port"
    /\ last.args = [host |-> "localhost", port |-> <<"0">>]
    /\ last.result.ok

\* C6: whenever bind succeeded and connect failed with a kind other than
\* WouldBlock, the constructor returned Err(ConnectionRefused) and no handle
\* owns the socket that was bound.
C6_ConnectFailureIsConnectionRefused ==
    \A k \in ConnectErrors \ {"WouldBlock"} :
        ConnectReported(k) =>
            /\ last.result = Err([tag |-> "ConnectionRefused"])
            /\ last.env.bind[1].val \notin OwnedSockets

\* C6 witness: with_host_port got an address, bound, and connect failed
C6_Witness ==
    /\ last.op = "with_host_port"
    /\ ConnectReported("InvalidInput")

\* C7: whenever bind failed, whatever the kind, the constructor returned
\* Err(ProxyInternalError) and did not attempt connect; the lift of an I/O
\* error and the lift of an address-parse error yield ProxyInternalError for
\* every cause, and no other variant.
C7_BindFailureIsProxyInternalError ==
    /\ (last.op \in Constructors /\ last.env.bind # None /\ ~last.env.bind[1].ok) =>
          /\ last.result = Err([tag |-> "ProxyInternalError"])
          /\ last.env.connect = None
          /\ \A i \in 1..Len(last.calls) : last.calls[i][1] # "connect"
    /\ \A k \in BindErrors \cup ConnectErrors \cup TransferErrors \cup {"Other"} :
          from_io_error(k) = [tag |-> "ProxyInternalError"]
    /\ from_addr_parse_error("invalid socket address syntax")
          = [tag |-> "ProxyInternalError"]

\* C7 witness: a constructor whose bind failed with AddrInUse
C7_Witness ==
    /\ last.op \in Constructors
    /\ last.env.bind = Some(IoErr("AddrInUse"))

\* C8: every live handle has context_id 0; a constructor that returned Ok
\* returned a live handle whose target is the requested destination (for
\* with_host_port the first address the resolver returned); and a send or recv,
\* whatever it returns, leaves every handle as it was.
C8_IdentityFields ==
    [][ /\ \A h \in handles' : h.context_id = 0
        /\ (last'.op \in Constructors /\ last'.result.ok) =>
              /\ last'.result.handle \in handles'
              /\ last'.result.handle.target = RequestedTarget'
        /\ last'.op \in Transfers => handles' = handles ]_vars

\* C8 witness: two handles are live and a recv on one of them has just failed
C8_Witness ==
    /\ last.op = "recv" /\ ~last.result.ok
    /\ last.args.self \in handles
    /\ last.args.self.context_id = 0
    /\ Cardinality(handles) = 2

\* C9: the open sockets are exactly the sockets of the live handles, one each;
\* a constructor that failed after a successful bind closed the socket it bound.
C9_OpenSocketsAreOwned ==
    /\ open = OwnedSockets
    /\ Cardinality(handles) = Cardinality(open)
    /\ (last.op \in Constructors /\ ~last.result.ok
           /\ last.env.bind # None /\ last.env.bind[1].ok) =>
          last.calls[Len(last.calls)] = SockCall("close", last.env.bind[1].val)

\* C9 witness: a connect failure while another handle is live
C9_Witness ==
    /\ ConnectReported("ConnectionRefused")
    /\ handles # {}

\* C10: a send or recv makes one call, on the socket of its handle, and returns
\* that call's io::Result as it is; the handle is still live with the same
\* socket and destination, that socket is still open, and no socket was opened
\* or closed.
C10_TransferIsPassthrough ==
    [][ last'.op \in Transfers =>
          /\ last'.result = last'.env.transfer
          /\ last'.calls = <<SockCall(last'.op, last'.args.self.socket)>>
          /\ last'.args.self \in handles
          /\ handles' = handles
          /\ open' = open
          /\ last'.args.self.socket \in open' ]_vars

\* C10 witness: a send that reported WouldBlock on a live handle
C10_Witness ==
    /\ last.op = "send"
    /\ last.result = IoErr("WouldBlock")
    /\ last.args.self \in handles

=============================================================================
